---- MODULE Spec2Model ----
(***************************************************************************)
(* Model of the std-reference oracle contract (src/src/contract.rs):       *)
(* instantiate, execute (Relay -> update_refs) and query (GetRefs,         *)
(* GetReferenceData -> get_ref_data).                                      *)
(*                                                                         *)
(* Numbers.  The contract's u64 fields reach 2^64 - 1 and its cross rate   *)
(* is a num::BigUint of up to 38 decimal digits, both beyond TLC's         *)
(* integers.  Every number of the model (u64 and BigUint alike) is         *)
(* therefore a sequence of limbs in radix Base = 10^4, least significant   *)
(* limb first, without leading (highest) zero limbs; zero is <<>>.         *)
(* Example: 124824 is <<4824, 12>>.  BigUint::from(u64) keeps the value,   *)
(* so it keeps the limbs.                                                  *)
(***************************************************************************)
EXTENDS Integers, Sequences, FiniteSets, TLC

VARIABLES
    storage,   \* the persisted State {refs: HashMap<String, RefData>}
    before,    \* the persisted State as it was when the call in `call` started
    call       \* the entry-point call whose result the host is returning:
               \* [op, info, msg, res], or Idle between two calls

vars == <<storage, before, call>>

----------------------------------------------------------------------------
(* Arbitrary-precision naturals (num::BigUint)                             *)

Base == 10000

Zero == <<>>

\* limb k of a, 0 above its highest limb
Limb(a, k) == IF k <= Len(a) THEN a[k] ELSE 0

\* drop the highest limbs while they are zero
Norm(a) ==
    LET top == CHOOSE k \in 0..Len(a) :
                   /\ k = 0 \/ a[k] # 0
                   /\ \A m \in (k + 1)..Len(a) : a[m] = 0
    IN  SubSeq(a, 1, top)

\* -1, 0, 1 as a < b, a = b, a > b
BigCmp(a, b) ==
    IF Len(a) < Len(b) THEN -1
    ELSE IF Len(a) > Len(b) THEN 1
    ELSE LET differ == {k \in 1..Len(a) : a[k] # b[k]}
         IN  IF differ = {} THEN 0
             ELSE LET k == CHOOSE i \in differ : \A j \in differ : j <= i
                  IN  IF a[k] < b[k] THEN -1 ELSE 1

BigLeq(a, b) == BigCmp(a, b) <= 0

BigLt(a, b) == BigCmp(a, b) < 0

\* a + b; the carry into limb k is 1 when a limb j below it overflows and
\* every limb between them is full
BigAdd(a, b) ==
    LET n == IF Len(a) > Len(b) THEN Len(a) ELSE Len(b)
        s == [k \in 1..(n + 1) |-> Limb(a, k) + Limb(b, k)]
        carry == [k \in 1..(n + 1) |->
                     IF \E j \in 1..(k - 1) :
                            /\ s[j] >= Base
                            /\ \A m \in (j + 1)..(k - 1) : s[m] = Base - 1
                     THEN 1 ELSE 0]
    IN  Norm([k \in 1..(n + 1) |-> (s[k] + carry[k]) % Base])

\* a - b for a >= b; limb k borrows 1 when a limb j below it falls short and
\* every limb between them is level
BigSub(a, b) ==
    LET borrow == [k \in 1..Len(a) |->
                      IF \E j \in 1..(k - 1) :
                             /\ a[j] < Limb(b, j)
                             /\ \A m \in (j + 1)..(k - 1) : a[m] = Limb(b, m)
                      THEN 1 ELSE 0]
    IN  Norm([k \in 1..Len(a) |-> (a[k] - Limb(b, k) - borrow[k] + Base) % Base])

\* a * m for one limb m: the low halves of the limb products plus their high
\* halves one limb up
MulLimb(a, m) ==
    BigAdd(Norm([k \in 1..Len(a) |-> (a[k] * m) % Base]),
           Norm([k \in 1..(Len(a) + 1) |->
                    IF k = 1 THEN 0 ELSE (a[k - 1] * m) \div Base]))

RECURSIVE MulFrom(_, _, _, _)
\* a * b from limb i of b downwards; acc is a times the limbs of b above i
MulFrom(a, b, i, acc) ==
    IF i = 0 THEN acc
    ELSE MulFrom(a, b, i - 1,
                 BigAdd(MulLimb(a, b[i]),
                        IF acc = <<>> THEN <<>> ELSE <<0>> \o acc))

BigMul(a, b) == MulFrom(a, b, Len(b), <<>>)

RECURSIVE Search(_, _, _, _, _)
\* the largest q in lo..hi with d * (q * unit) <= n, given d * (lo * unit) <= n
Search(n, d, unit, lo, hi) ==
    IF lo = hi THEN lo
    ELSE LET mid == (lo + hi + 1) \div 2
         IN  IF BigLeq(MulLimb(d, mid * unit), n)
             THEN Search(n, d, unit, mid, hi)
             ELSE Search(n, d, unit, lo, mid - 1)

\* the largest limb q with d * q <= n, for n < d * Base: its two halves
\* (radix 100) are found one after the other
QuotLimb(n, d) ==
    LET high == Search(n, d, 100, 0, 99)
    IN  Search(n, d, 1, high * 100, high * 100 + 99)

RECURSIVE DivFrom(_, _, _, _)
\* long division of n by d # 0, a limb of n a step from the highest down; q
\* holds the quotient limbs found so far (lowest first), r the remainder of
\* the limbs of n they cover
DivFrom(n, d, q, r) ==
    IF Len(q) = Len(n) THEN [q |-> Norm(q), r |-> r]
    ELSE LET cur == Norm(<<n[Len(n) - Len(q)]>> \o r)
             ql  == QuotLimb(cur, d)
         IN  DivFrom(n, d, <<ql>> \o q, BigSub(cur, MulLimb(d, ql)))

\* [q |-> n div d, r |-> n mod d]
DivMod(n, d) == DivFrom(n, d, <<>>, <<>>)

BigDiv(n, d) == DivMod(n, d).q

BigMod(n, d) == DivMod(n, d).r

----------------------------------------------------------------------------
(* Values                                                                  *)

U64Max == <<1615, 955, 737, 6744, 1844>>     \* 18446744073709551615
Two64  == <<1616, 955, 737, 6744, 1844>>     \* 18446744073709551616 = 2^64
Ten18  == <<0, 0, 0, 0, 100>>                \* 1e18 as u128
Ten9   == <<0, 0, 10>>                       \* 1e9 as u128

MockBlockTime == <<5533, 7930, 4198, 1797, 157>>   \* 1571797419879305533
ResolveTime   == <<0, 0, 2980, 5108, 162>>         \* 1625108298000000000

USD == "USD"

\* the symbols calls are made with
Symbols == {"USD", "ETH", "MATIC"}

\* u64 inputs of the relay and query calls of Spec
Rates        == {Zero, <<112>>, U64Max}
ResolveTimes == {Zero, ResolveTime}
RequestIds   == {<<124>>}
BlockTimes   == {MockBlockTime, <<1>>}

\* the senders of the messages: the instantiator and another account
Senders == {"creator", "sender"}

\* inputs of the relay calls of SpecBatch (values of the contract's own tests)
BatchSymbols      == {"ETH", "MATIC"}
BatchRates        == {<<12>>, <<24>>}
BatchResolveTimes == {<<2>>, <<4824, 12>>}   \* 2, 124824
BatchRequestIds   == {<<3>>, <<69>>}

\* the longest array of a relay call of SpecBatch
MaxLen == 2

SeqsUpTo(S, n) == UNION {[1..k -> S] : k \in 0..n}

----------------------------------------------------------------------------
(* The contract                                                            *)

RefData(rate, resolve_time, request_id) ==
    [rate |-> rate, resolve_time |-> resolve_time, request_id |-> request_id]

\* HashMap::new()
EmptyRefs == [k \in {} |-> Zero]

\* mutant of insert: an entry already present keeps its request_id
insert_merge(refs, key, value) ==
    [k \in DOMAIN refs \cup {key} |->
        IF k # key THEN refs[k]
        ELSE IF key \in DOMAIN refs
        THEN [value EXCEPT !.request_id = refs[key].request_id]
        ELSE value]

\* mutant of insert: the map is rebuilt with the inserted entry alone
insert_only(refs, key, value) == [k \in {key} |-> value]

\* HashMap::insert: the entry of key is replaced whole
insert(refs, key, value) ==
    [k \in DOMAIN refs \cup {key} |-> IF k = key THEN value ELSE refs[k]]

\* instantiate: State { refs: HashMap::new() } is saved
instantiate == [refs |-> EmptyRefs]

Ok(data) == [tag |-> "Ok", data |-> data]

Err(e) == [tag |-> "Err", err |-> e]

\* a panic aborts the call; `why` names the failing operation
Panic(why) == [tag |-> "Panic", why |-> why]

\* Response::default()
DefaultResponse == "Response::default"

\* mutant of DifferentLength: only arrays shorter than symbols are refused
DifferentLength_shorter(symbols, new_rates, new_resolve_times, new_request_ids) ==
    \/ Len(new_rates) < Len(symbols)
    \/ Len(new_request_ids) < Len(symbols)
    \/ Len(new_resolve_times) < Len(symbols)

\* the guard of update_refs
DifferentLength(symbols, new_rates, new_resolve_times, new_request_ids) ==
    \/ Len(new_rates) # Len(symbols)
    \/ Len(new_request_ids) # Len(symbols)
    \/ Len(new_resolve_times) # Len(symbols)

RECURSIVE InsertFrom_skip_last(_, _, _, _, _, _)
\* mutant of InsertFrom: the loop stops one index early (0..len-1)
InsertFrom_skip_last(refs, idx, symbols, new_rates, new_resolve_times, new_request_ids) ==
    IF idx >= Len(symbols) THEN refs
    ELSE InsertFrom_skip_last(
             [k \in DOMAIN refs \cup {symbols[idx]} |->
                 IF k = symbols[idx]
                 THEN [rate |-> new_rates[idx],
                       resolve_time |-> new_resolve_times[idx],
                       request_id |-> new_request_ids[idx]]
                 ELSE refs[k]],
             idx + 1, symbols, new_rates, new_resolve_times, new_request_ids)

\* mutant of InsertFrom: the State is saved after the first entry of the loop
InsertFrom_first_only(refs, idx, symbols, new_rates, new_resolve_times, new_request_ids) ==
    IF idx > Len(symbols) THEN refs
    ELSE insert(refs, symbols[idx],
                RefData(new_rates[idx], new_resolve_times[idx],
                        new_request_ids[idx]))

RECURSIVE InsertFrom_reverse(_, _, _, _, _, _)
\* mutant of InsertFrom: the loop runs from the last index down to the first
InsertFrom_reverse(refs, idx, symbols, new_rates, new_resolve_times, new_request_ids) ==
    IF idx > Len(symbols) THEN refs
    ELSE insert(InsertFrom_reverse(refs, idx + 1, symbols, new_rates,
                                   new_resolve_times, new_request_ids),
                symbols[idx],
                RefData(new_rates[idx], new_resolve_times[idx],
                        new_request_ids[idx]))

RECURSIVE InsertFrom(_, _, _, _, _, _)
\* for idx in (idx-1)..len (the model's sequences start at 1)
InsertFrom(refs, idx, symbols, new_rates, new_resolve_times, new_request_ids) ==
    IF idx > Len(symbols) THEN refs
    ELSE InsertFrom(insert(refs, symbols[idx],
                           RefData(new_rates[idx], new_resolve_times[idx],
                                   new_request_ids[idx])),
                    idx + 1, symbols, new_rates, new_resolve_times,
                    new_request_ids)

\* mutant of update_refs: the entries present in all four arrays are written
\* and saved before the lengths are compared
update_refs_write_first(state, symbols, new_rates, new_resolve_times, new_request_ids) ==
    LET lens == {Len(symbols), Len(new_rates), Len(new_resolve_times),
                 Len(new_request_ids)}
        n == CHOOSE k \in lens : \A m \in lens : k <= m
        written == [state EXCEPT !.refs =
                       InsertFrom(state.refs, 1, SubSeq(symbols, 1, n),
                                  new_rates, new_resolve_times, new_request_ids)]
    IN  IF Cardinality(lens) # 1
        THEN [res |-> [tag |-> "Err", err |-> "DifferentArrayLength"],
              state |-> written]
        ELSE [res |-> [tag |-> "Ok", data |-> "Response::default"],
              state |-> written]

\* update_refs: [res |-> the call's result, state |-> the State persisted after it]
update_refs(state, symbols, new_rates, new_resolve_times, new_request_ids) ==
    IF DifferentLength(symbols, new_rates, new_resolve_times, new_request_ids)
    THEN [res |-> Err("DifferentArrayLength"), state |-> state]
    ELSE [res   |-> Ok(DefaultResponse),
          state |-> [state EXCEPT !.refs =
                        InsertFrom(state.refs, 1, symbols, new_rates,
                                   new_resolve_times, new_request_ids)]]

\* mutant of execute: only the sender that instantiated the contract may relay
execute_creator_only(state, info, msg) ==
    IF info.sender # "creator"
    THEN [res |-> [tag |-> "Err", err |-> "Unauthorized"], state |-> state]
    ELSE update_refs(state, msg.symbols, msg.rates, msg.resolve_times,
                     msg.request_ids)

\* execute: the only message is Relay; _env and _info are not read
execute(state, info, msg) ==
    update_refs(state, msg.symbols, msg.rates, msg.resolve_times, msg.request_ids)

\* query_refs: the whole State
query_refs(state) == Ok(state)

\* mutant of NotResolved: resolve_time < 0, which no u64 satisfies
NotResolved_never(ref_data) == FALSE

\* the stale test of get_ref_data: resolve_time <= 0 on a u64
NotResolved(ref_data) == ref_data.resolve_time = Zero

\* mutant of get_ref_data: the stored record of "USD" is preferred to the anchor
get_ref_data_stored_first(state, time, symbol) ==
    IF symbol \in DOMAIN state.refs
    THEN IF state.refs[symbol].resolve_time = <<>>
         THEN [tag |-> "Err", err |-> "RefDataNotAvailable"]
         ELSE [tag |-> "Ok",
               data |-> [rate |-> state.refs[symbol].rate,
                         last_update |-> state.refs[symbol].resolve_time]]
    ELSE IF symbol = "USD"
    THEN [tag |-> "Ok", data |-> [rate |-> <<0, 0, 10>>, last_update |-> time]]
    ELSE [tag |-> "Panic", why |-> "unwrap on None"]

\* get_ref_data
get_ref_data(state, time, symbol) ==
    IF symbol = USD
    THEN Ok([rate |-> Ten9, last_update |-> time])
    ELSE IF symbol \notin DOMAIN state.refs
    THEN Panic("unwrap on None")
    ELSE LET ref_data == state.refs[symbol]
         IN  IF NotResolved(ref_data)
             THEN Err("RefDataNotAvailable")
             ELSE Ok([rate |-> ref_data.rate, last_update |-> ref_data.resolve_time])

\* Result::unwrap
unwrap(r) == IF r.tag = "Err" THEN Panic("unwrap on Err") ELSE r

\* mutant of cross_rate: the product is taken in u64 (wrapping_mul)
cross_rate_u64(base_rate, quote_rate) ==
    BigDiv(BigMod(BigMul(base_rate, <<0, 0, 0, 0, 100>>),
                  <<1616, 955, 737, 6744, 1844>>), quote_rate)

\* mutant of cross_rate: the quotient is rounded up
cross_rate_round_up(base_rate, quote_rate) ==
    BigDiv(BigAdd(BigMul(base_rate, <<0, 0, 0, 0, 100>>),
                  BigSub(quote_rate, <<1>>)), quote_rate)

\* (base.rate * BigUint::from(1e18 as u128)) / quote.rate, for quote_rate # 0
cross_rate(base_rate, quote_rate) == BigDiv(BigMul(base_rate, Ten18), quote_rate)

\* mutant of ReferenceData: the two last_update fields are swapped
ReferenceData_swapped(base_ref_data, quote_ref_data) ==
    [rate               |-> BigDiv(BigMul(base_ref_data.rate, <<0, 0, 0, 0, 100>>),
                                   quote_ref_data.rate),
     last_updated_base  |-> quote_ref_data.last_update,
     last_updated_quote |-> base_ref_data.last_update]

\* the ReferenceData built by the GetReferenceData arm of query
ReferenceData(base_ref_data, quote_ref_data) ==
    [rate               |-> cross_rate(base_ref_data.rate, quote_ref_data.rate),
     last_updated_base  |-> base_ref_data.last_update,
     last_updated_quote |-> quote_ref_data.last_update]

\* the GetReferenceData arm of query
query_reference_data(state, time, base, quote) ==
    LET base_ref_data == unwrap(get_ref_data(state, time, base))
    IN  IF base_ref_data.tag = "Panic" THEN base_ref_data
        ELSE LET quote_ref_data == unwrap(get_ref_data(state, time, quote))
             IN  IF quote_ref_data.tag = "Panic" THEN quote_ref_data
                 ELSE IF quote_ref_data.data.rate = Zero
                 THEN Panic("attempt to divide by zero")
                 ELSE Ok(ReferenceData(base_ref_data.data, quote_ref_data.data))

----------------------------------------------------------------------------
(* The state machine.  The host runs one entry point at a time, to          *)
(* completion: an action is one whole call, from the State it loads to the  *)
(* State it saves and the result it returns; Return ends the call.          *)

NoMsg == [none |-> TRUE]

\* query takes no MessageInfo
NoInfo == [none |-> TRUE]

\* MessageInfo of the sender
MessageInfo(sender) == [sender |-> sender]

Idle == [op |-> "idle", info |-> NoInfo, msg |-> NoMsg, res |-> [tag |-> "None"]]

Init ==
    /\ storage = instantiate
    /\ before = instantiate
    /\ call = [op |-> "instantiate", info |-> MessageInfo("creator"),
               msg |-> NoMsg, res |-> Ok(DefaultResponse)]

\* execute(Relay {..}) sent by info.sender with the four arrays of msg
RelayMsg(info, msg) ==
    LET out == execute(storage, info, msg)
    IN  /\ storage' = out.state
        /\ before' = storage
        /\ call' = [op |-> "relay", info |-> info, msg |-> msg, res |-> out.res]

\* Spec: a relay of one entry; every State over Symbols, Rates, ResolveTimes
\* and RequestIds is reached by a run of such relays
Relay ==
    /\ call = Idle
    /\ \E sender \in Senders, symbol \in Symbols, rate \in Rates,
          resolve_time \in ResolveTimes, request_id \in RequestIds :
        RelayMsg(MessageInfo(sender),
                 [symbols |-> <<symbol>>, rates |-> <<rate>>,
                  resolve_times |-> <<resolve_time>>,
                  request_ids |-> <<request_id>>])

\* SpecBatch: a relay of four arrays, each of any length up to MaxLen
RelayBatch ==
    /\ call = Idle
    /\ \E sender \in Senders,
          symbols \in SeqsUpTo(BatchSymbols, MaxLen),
          rates \in SeqsUpTo(BatchRates, MaxLen),
          resolve_times \in SeqsUpTo(BatchResolveTimes, MaxLen),
          request_ids \in SeqsUpTo(BatchRequestIds, MaxLen) :
        RelayMsg(MessageInfo(sender),
                 [symbols |-> symbols, rates |-> rates,
                  resolve_times |-> resolve_times, request_ids |-> request_ids])

\* query(GetRefs {})
GetRefs ==
    /\ call = Idle
    /\ call' = [op |-> "get_refs", info |-> NoInfo, msg |-> NoMsg,
                res |-> query_refs(storage)]
    /\ before' = storage
    /\ UNCHANGED storage

\* mutant of GetReferenceData: a query naming a base that has no record
\* stores an empty record for it
GetReferenceData_caching ==
    /\ call = Idle
    /\ \E base \in Symbols, quote \in Symbols, time \in BlockTimes :
        /\ call' = [op |-> "get_reference_data", info |-> NoInfo,
                    msg |-> [base |-> base, quote |-> quote, time |-> time],
                    res |-> query_reference_data(storage, time, base, quote)]
        /\ before' = storage
        /\ storage' = IF base = "USD" \/ base \in DOMAIN storage.refs
                      THEN storage
                      ELSE [refs |-> [k \in DOMAIN storage.refs \cup {base} |->
                                         IF k = base
                                         THEN [rate |-> <<>>, resolve_time |-> <<>>,
                                               request_id |-> <<>>]
                                         ELSE storage.refs[k]]]

\* query(GetReferenceData { base, quote }) at block time `time`
GetReferenceData ==
    /\ call = Idle
    /\ \E base \in Symbols, quote \in Symbols, time \in BlockTimes :
        /\ call' = [op |-> "get_reference_data", info |-> NoInfo,
                    msg |-> [base |-> base, quote |-> quote, time |-> time],
                    res |-> query_reference_data(storage, time, base, quote)]
        /\ before' = storage
        /\ UNCHANGED storage

\* the host hands the result to the caller; the next call may start
Return ==
    /\ call # Idle
    /\ call' = Idle
    /\ before' = storage
    /\ UNCHANGED storage

Next == Relay \/ GetRefs \/ GetReferenceData \/ Return

Spec == Init /\ [][Next]_vars

NextBatch == RelayBatch \/ GetRefs \/ Return

SpecBatch == Init /\ [][NextBatch]_vars

----------------------------------------------------------------------------
(* Properties.  `call` is the call that has just run, `before` the State it *)
(* started from and `storage` the State it left.                            *)

IsRelay == call.op = "relay"

Accepted == IsRelay /\ call.res.tag = "Ok"

IsRefDataQuery == call.op = "get_reference_data"

\* the four arrays of a relay message have one common length
SameLengths(msg) ==
    Cardinality({Len(msg.symbols), Len(msg.rates), Len(msg.resolve_times),
                 Len(msg.request_ids)}) = 1

\* the indices at which a relay message names the symbol
IndicesOf(msg, symbol) == {i \in 1..Len(msg.symbols) : msg.symbols[i] = symbol}

\* the (rate, resolve_time, request_id) a relay message submits at index i
Submitted(msg, i) ==
    [rate |-> msg.rates[i], resolve_time |-> msg.resolve_times[i],
     request_id |-> msg.request_ids[i]]

\* C1: a relay whose four arrays do not all have the same length fails with
\* the length-mismatch error and leaves the Store as it was before the call.
C1_MismatchRejected ==
    (IsRelay /\ ~SameLengths(call.msg))
        => /\ call.res = [tag |-> "Err", err |-> "DifferentArrayLength"]
           /\ storage = before

\* C1 witness: a mismatched relay (symbols shorter than rates, resolve_times
\* longer than both) has run against a Store that holds records.
C1_Witness ==
    /\ IsRelay
    /\ Len(call.msg.symbols) = 1
    /\ Len(call.msg.rates) = 2
    /\ Len(call.msg.resolve_times) = 2
    /\ Len(call.msg.request_ids) = 0
    /\ DOMAIN before.refs = BatchSymbols
    /\ call.res.tag = "Err"

\* C2: after an accepted relay, reading back every symbol of the batch (the
\* snapshot GetRefs returns) gives a triple the batch submitted for that
\* symbol; for a symbol named once that is the triple at its index.
C2_ReadBack ==
    Accepted =>
        LET snapshot == query_refs(storage).data.refs
        IN  \A i \in 1..Len(call.msg.symbols) :
                LET symbol == call.msg.symbols[i]
                IN  /\ symbol \in DOMAIN snapshot
                    /\ \E j \in IndicesOf(call.msg, symbol) :
                           snapshot[symbol] = Submitted(call.msg, j)
                    /\ IndicesOf(call.msg, symbol) = {i}
                           => snapshot[symbol] = Submitted(call.msg, i)

\* C2 witness: an accepted batch of two different symbols, each with its own
\* rate, resolve time and request id, has been applied to the empty Store.
C2_Witness ==
    /\ Accepted
    /\ Len(call.msg.symbols) = 2
    /\ call.msg.symbols[1] # call.msg.symbols[2]
    /\ call.msg.rates[1] # call.msg.rates[2]
    /\ call.msg.resolve_times[1] # call.msg.resolve_times[2]
    /\ call.msg.request_ids[1] # call.msg.request_ids[2]
    /\ DOMAIN before.refs = {}
    /\ DOMAIN storage.refs = BatchSymbols

\* C3: when an accepted relay names a symbol that an earlier accepted relay
\* has stored, the record stored afterwards is one this relay submitted for
\* the symbol, whole: no field is kept from the earlier record.
C3_Replaced ==
    Accepted =>
        \A symbol \in DOMAIN before.refs :
            IndicesOf(call.msg, symbol) # {}
                => \E j \in IndicesOf(call.msg, symbol) :
                       /\ storage.refs[symbol].rate = call.msg.rates[j]
                       /\ storage.refs[symbol].resolve_time
                              = call.msg.resolve_times[j]
                       /\ storage.refs[symbol].request_id
                              = call.msg.request_ids[j]

\* C3 witness: a second accepted batch has replaced a record whose rate,
\* resolve time and request id all differ from the ones it submits.
C3_Witness ==
    /\ Accepted
    /\ call.msg.symbols = <<"MATIC">>
    /\ "MATIC" \in DOMAIN before.refs
    /\ before.refs["MATIC"] = [rate |-> <<12>>, resolve_time |-> <<4824, 12>>,
                               request_id |-> <<69>>]
    /\ storage.refs["MATIC"] = [rate |-> <<24>>, resolve_time |-> <<2>>,
                                request_id |-> <<3>>]

\* C4: resolving "USD" at time t gives (10^9, t) whatever the Store holds;
\* a USD/USD query therefore returns rate 10^18 and t for both sides.
C4_UsdAnchor ==
    /\ \A t \in BlockTimes :
           get_ref_data(storage, t, "USD")
               = [tag |-> "Ok", data |-> [rate |-> <<0, 0, 10>>, last_update |-> t]]
    /\ (IsRefDataQuery /\ call.msg.base = "USD" /\ call.msg.quote = "USD")
           => call.res = [tag  |-> "Ok",
                          data |-> [rate               |-> <<0, 0, 0, 0, 100>>,
                                    last_updated_base  |-> call.msg.time,
                                    last_updated_quote |-> call.msg.time]]

\* C4 witness: "USD" was resolved while the Store holds a record under the
\* key "USD" with another rate and another time.
C4_Witness ==
    /\ IsRefDataQuery
    /\ call.msg.base = "USD"
    /\ call.msg.quote = "USD"
    /\ "USD" \in DOMAIN storage.refs
    /\ storage.refs["USD"].rate = U64Max
    /\ storage.refs["USD"].resolve_time = ResolveTime
    /\ call.msg.time = MockBlockTime

\* the symbol is not "USD" and has never been relayed
Unknown(state, symbol) == symbol # "USD" /\ symbol \notin DOMAIN state.refs

\* the symbol is not "USD" and its stored record has resolve_time 0
Stale(state, symbol) ==
    /\ symbol # "USD"
    /\ symbol \in DOMAIN state.refs
    /\ state.refs[symbol].resolve_time = <<>>

\* the symbol resolves: it is "USD" or has a record with resolve_time > 0
Resolves(state, symbol) ==
    \/ symbol = "USD"
    \/ symbol \in DOMAIN state.refs /\ state.refs[symbol].resolve_time # <<>>

\* the rate and the last_update the symbol resolves to
SideRate(state, symbol) ==
    IF symbol = "USD" THEN <<0, 0, 10>> ELSE state.refs[symbol].rate

SideTime(state, symbol, time) ==
    IF symbol = "USD" THEN time ELSE state.refs[symbol].resolve_time

\* C5: a get_reference_data query naming a non-USD symbol that was never
\* relayed ends with an error value (UnknownSymbol when the base is the
\* unknown one), never with a panic.
C5_UnknownSymbolIsError ==
    (IsRefDataQuery /\ (Unknown(storage, call.msg.base)
                            \/ Unknown(storage, call.msg.quote)))
        => /\ call.res.tag = "Err"
           /\ Unknown(storage, call.msg.base) => call.res.err = "UnknownSymbol"

\* C6: a get_reference_data query whose first failing side is a non-USD
\* symbol stored with resolve_time 0 returns the error RefDataNotAvailable.
C6_NotAvailableIsError ==
    (IsRefDataQuery
        /\ \/ Stale(storage, call.msg.base)
           \/ Resolves(storage, call.msg.base) /\ Stale(storage, call.msg.quote))
        => call.res = [tag |-> "Err", err |-> "RefDataNotAvailable"]

\* C7: whenever a get_reference_data query returns a result, each non-USD
\* side has a stored record with resolve_time > 0, and the last_updated
\* value returned for that side is not zero.
C7_NoStaleResult ==
    (IsRefDataQuery /\ call.res.tag = "Ok")
        => /\ call.msg.base # "USD"
               => /\ call.msg.base \in DOMAIN storage.refs
                  /\ storage.refs[call.msg.base].resolve_time # <<>>
                  /\ call.res.data.last_updated_base # <<>>
           /\ call.msg.quote # "USD"
               => /\ call.msg.quote \in DOMAIN storage.refs
                  /\ storage.refs[call.msg.quote].resolve_time # <<>>
                  /\ call.res.data.last_updated_quote # <<>>

\* C7 witness: a query over two stored symbols has returned a result while
\* the Store also holds a record with resolve_time 0.
C7_Witness ==
    /\ IsRefDataQuery
    /\ call.msg.base = "ETH"
    /\ call.msg.quote = "MATIC"
    /\ call.res.tag = "Ok"
    /\ "USD" \in DOMAIN storage.refs
    /\ storage.refs["USD"].resolve_time = <<>>
    /\ call.res.data.last_updated_base = ResolveTime
    /\ call.res.data.last_updated_quote = ResolveTime

\* C8: a get_reference_data query whose two sides resolve and whose quote
\* side has rate 0 returns the error DivisionByZero.
C8_DivisionByZeroIsError ==
    (IsRefDataQuery
        /\ Resolves(storage, call.msg.base)
        /\ Resolves(storage, call.msg.quote)
        /\ SideRate(storage, call.msg.quote) = <<>>)
        => call.res = [tag |-> "Err", err |-> "DivisionByZero"]

\* C9: when both sides resolve and the quote rate is not 0, the query
\* returns rate = floor(base.rate * 10^18 / quote.rate), exact over the
\* whole u64 range: rate * quote.rate <= base.rate * 10^18
\* < (rate + 1) * quote.rate; USD over a rate of 112 gives
\* 8928571428571428571428571, and 2^64 - 1 over 2^64 - 1 gives 10^18.
C9_ExactRate ==
    (IsRefDataQuery
        /\ Resolves(storage, call.msg.base)
        /\ Resolves(storage, call.msg.quote)
        /\ SideRate(storage, call.msg.quote) # <<>>)
        => LET b == SideRate(storage, call.msg.base)
               q == SideRate(storage, call.msg.quote)
               n == BigMul(b, <<0, 0, 0, 0, 100>>)
               r == call.res.data.rate
           IN  /\ call.res.tag = "Ok"
               /\ BigLeq(BigMul(r, q), n)
               /\ BigLt(n, BigMul(BigAdd(r, <<1>>), q))
               /\ (call.msg.base = "USD" /\ q = <<112>>)
                      => r = <<8571, 7142, 4285, 8571, 7142, 9285, 8>>
               /\ (b = U64Max /\ q = U64Max) => r = <<0, 0, 0, 0, 100>>
               /\ (b = U64Max /\ q = <<112>>)
                      => r = <<1428, 2857, 5714, 3928, 2513, 6924, 2086, 307, 1647>>

\* C9 witness: a query whose base and quote rates are both 2^64 - 1 has
\* returned a rate.
C9_Witness ==
    /\ IsRefDataQuery
    /\ call.msg.base = "ETH"
    /\ call.msg.quote = "MATIC"
    /\ Resolves(storage, "ETH")
    /\ Resolves(storage, "MATIC")
    /\ storage.refs["ETH"].rate = U64Max
    /\ storage.refs["MATIC"].rate = U64Max
    /\ call.res.tag = "Ok"

\* C10: a successful query returns last_updated_base = the base side's
\* last_update and last_updated_quote = the quote side's: the resolve_time
\* of the stored record, or the query's block time for "USD".
C10_LastUpdated ==
    (IsRefDataQuery /\ call.res.tag = "Ok")
        => /\ call.res.data.last_updated_base
                  = SideTime(storage, call.msg.base, call.msg.time)
           /\ call.res.data.last_updated_quote
                  = SideTime(storage, call.msg.quote, call.msg.time)

\* C10 witness: the query of the contract's test (USD over MATIC at the mock
\* block time) has succeeded while the Store also holds a record under "USD"
\* whose resolve_time is not the block time.
C10_Witness ==
    /\ IsRefDataQuery
    /\ call.res.tag = "Ok"
    /\ call.msg.base = "USD"
    /\ call.msg.quote = "MATIC"
    /\ call.msg.time = MockBlockTime
    /\ storage.refs["MATIC"].resolve_time = ResolveTime
    /\ "USD" \in DOMAIN storage.refs
    /\ storage.refs["USD"].resolve_time = ResolveTime
    /\ call.res.data.last_updated_base = MockBlockTime
    /\ call.res.data.last_updated_quote = ResolveTime

\* the symbols a relay message names
SymbolsOf(msg) == {msg.symbols[i] : i \in 1..Len(msg.symbols)}

\* C11: the Store is empty right after instantiate; after a relay the
\* snapshot GetRefs returns holds exactly the symbols held before the call
\* plus, when the batch was accepted, the symbols of the batch: a rejected
\* batch adds none, no other key appears and none disappears.
C11_ExactSymbols ==
    LET snapshot == query_refs(storage).data.refs
    IN  /\ call.op = "instantiate" => DOMAIN snapshot = {}
        /\ Accepted
               => DOMAIN snapshot = DOMAIN before.refs \cup SymbolsOf(call.msg)
        /\ (IsRelay /\ ~Accepted) => DOMAIN snapshot = DOMAIN before.refs
        /\ call.op = "get_refs"
               => /\ call.res = [tag |-> "Ok", data |-> storage]
                  /\ DOMAIN call.res.data.refs = DOMAIN before.refs

\* C11 witness: a rejected batch naming "MATIC" (with a rate and a request
\* id for it, but no resolve time) has run on a Store that holds only "ETH".
C11_Witness ==
    /\ IsRelay
    /\ ~Accepted
    /\ call.msg.symbols = <<"MATIC">>
    /\ Len(call.msg.rates) = 1
    /\ Len(call.msg.request_ids) = 1
    /\ Len(call.msg.resolve_times) = 0
    /\ DOMAIN before.refs = {"ETH"}
    /\ DOMAIN storage.refs = {"ETH"}

\* the highest index at which a relay message names the symbol
LastIndexOf(msg, symbol) ==
    CHOOSE i \in IndicesOf(msg, symbol) : \A j \in IndicesOf(msg, symbol) : j <= i

\* the refs a Store holds once every entry of the batch is applied to `refs`
AllApplied(refs, msg) ==
    [k \in DOMAIN refs \cup SymbolsOf(msg) |->
        IF k \in SymbolsOf(msg) THEN Submitted(msg, LastIndexOf(msg, k))
        ELSE refs[k]]

\* C12: a relay is one transition of the Store: it ends either rejected with
\* the Store exactly as before the call, or accepted with every entry of the
\* batch applied; a GetRefs sees the Store some whole call left, and returns it.
C12_AtomicBatch ==
    /\ IsRelay
           => \/ call.res.tag = "Err" /\ storage = before
              \/ /\ call.res.tag = "Ok"
                 /\ storage = [refs |-> AllApplied(before.refs, call.msg)]
    /\ call.op = "get_refs"
           => storage = before /\ call.res.data = before

\* C12 witness: an accepted batch of two different symbols has run on a
\* Store that held one of them, and both records are the batch's.
C12_Witness ==
    /\ Accepted
    /\ Len(call.msg.symbols) = 2
    /\ call.msg.symbols[1] # call.msg.symbols[2]
    /\ Cardinality(DOMAIN before.refs) = 1
    /\ storage.refs[call.msg.symbols[1]] = Submitted(call.msg, 1)
    /\ storage.refs[call.msg.symbols[2]] = Submitted(call.msg, 2)
    /\ \A symbol \in DOMAIN before.refs : storage.refs[symbol] # before.refs[symbol]

\* C14: when an accepted batch names a symbol more than once, the record
\* stored for it is the one of the highest index naming it.
C14_LastOccurrenceWins ==
    Accepted
        => \A symbol \in SymbolsOf(call.msg) :
               /\ symbol \in DOMAIN storage.refs
               /\ \A i \in IndicesOf(call.msg, symbol) :
                      (\A j \in IndicesOf(call.msg, symbol) : j <= i)
                          => storage.refs[symbol] = Submitted(call.msg, i)

\* C14 witness: an accepted batch named "MATIC" twice with two different
\* rates, resolve times and request ids, and the second triple is stored.
C14_Witness ==
    /\ Accepted
    /\ call.msg.symbols = <<"MATIC", "MATIC">>
    /\ call.msg.rates[1] # call.msg.rates[2]
    /\ call.msg.resolve_times[1] # call.msg.resolve_times[2]
    /\ call.msg.request_ids[1] # call.msg.request_ids[2]
    /\ storage.refs["MATIC"] = Submitted(call.msg, 2)

\* C17: an accepted relay leaves the record of every symbol that was stored
\* before the call and is not named by the batch as it was.
C17_OthersUntouched ==
    Accepted
        => \A symbol \in DOMAIN before.refs \ SymbolsOf(call.msg) :
               /\ symbol \in DOMAIN storage.refs
               /\ storage.refs[symbol] = before.refs[symbol]

\* C17 witness: an accepted batch naming only "ETH" has changed the Store
\* while "MATIC" was stored, and the "MATIC" record is the one from before.
C17_Witness ==
    /\ Accepted
    /\ SymbolsOf(call.msg) = {"ETH"}
    /\ "MATIC" \in DOMAIN before.refs
    /\ storage # before
    /\ storage.refs["MATIC"] = before.refs["MATIC"]

\* C13: no read path changes the Store: after GetRefs, and after
\* GetReferenceData whether it returned a result, or ended in a panic, the
\* Store is the one the call started from.
C13_QueriesDoNotWrite ==
    call.op \in {"get_refs", "get_reference_data"} => storage = before

\* C13 witness: a GetReferenceData query has failed on a Store that holds
\* records, and the records are still there.
C13_Witness ==
    /\ IsRefDataQuery
    /\ call.res.tag = "Panic"
    /\ Cardinality(DOMAIN before.refs) = 2
    /\ storage = before

\* the rate of the query with base and quote exchanged, on the same Store
ReverseRate == query_reference_data(storage, call.msg.time, call.msg.quote,
                                    call.msg.base).data.rate

\* the product of two rates
RateProduct(r1, r2) == IF Len(r1) >= Len(r2) THEN BigMul(r1, r2) ELSE BigMul(r2, r1)

\* 10^36, the square of the 1e18 scale
Ten36 == BigMul(Ten18, Ten18)

\* C15: when base and quote both resolve with non-zero rates, the rate of
\* the pair times the rate of the reversed pair is at most 10^36, and short
\* of it by no more than two truncations: with each rate one higher the
\* product exceeds 10^36.
C15_RoundTripBound ==
    (/\ IsRefDataQuery
     /\ Resolves(storage, call.msg.base)
     /\ Resolves(storage, call.msg.quote)
     /\ SideRate(storage, call.msg.base) # Zero
     /\ SideRate(storage, call.msg.quote) # Zero)
        => /\ call.res.tag = "Ok"
           /\ BigLeq(RateProduct(call.res.data.rate, ReverseRate), Ten36)
           /\ BigLt(Ten36, RateProduct(BigAdd(call.res.data.rate, <<1>>),
                                       BigAdd(ReverseRate, <<1>>)))

\* C15 witness: ETH at rate 112 has been queried against MATIC at rate
\* 2^64 - 1, and the product of the two rates is strictly below 10^36.
C15_Witness ==
    /\ IsRefDataQuery
    /\ call.msg.base = "ETH"
    /\ call.msg.quote = "MATIC"
    /\ Resolves(storage, "ETH")
    /\ Resolves(storage, "MATIC")
    /\ SideRate(storage, "ETH") = <<112>>
    /\ SideRate(storage, "MATIC") = U64Max
    /\ call.res.tag = "Ok"
    /\ BigLt(RateProduct(call.res.data.rate, ReverseRate), Ten36)

\* C16: relay checks no sender: the same batch on the same Store has, from
\* every sender, the outcome and the resulting Store it had in this call.
C16_AnySenderSameOutcome ==
    IsRelay
        => \A sender \in Senders :
               execute(before, MessageInfo(sender), call.msg)
                   = [res |-> call.res, state |-> storage]

\* C16 witness: a batch sent by "sender", who did not instantiate the
\* contract, has been accepted and has changed a Store that held a record.
C16_Witness ==
    /\ Accepted
    /\ call.info.sender = "sender"
    /\ DOMAIN before.refs # {}
    /\ storage # before
    /\ execute(before, MessageInfo("creator"), call.msg).state = storage

====
